---- MODULE Spec2Model ----
(***************************************************************************)
(* The SQLite-backed item store of src/inventory_agent/inventory.py.       *)
(*                                                                         *)
(* Python values are modelled as options: None is the empty tuple and any  *)
(* other value x is the one-element tuple Some(x).  A dict is a function   *)
(* from the set of its keys to such values.  The items table is a function *)
(* from the primary keys of its rows to the rows.  Each handler is an      *)
(* operator from the table and the arguments to the table afterwards and   *)
(* the value handed back to the caller; the action of the handler applies  *)
(* it to the state.                                                        *)
(***************************************************************************)
EXTENDS Integers, Sequences, FiniteSets, TLC

VARIABLES items, issued, deleted, upd

vars == <<items, issued, deleted, upd>>

----------------------------------------------------------------------------
(* Bounds and input domains *)

\* uuid4() is called at most MaxCreates times in a run.
MaxCreates == 2

\* A dict handed to create_item or update_item has at most MaxKeys keys.
MaxKeys == 2

None == <<>>

Some(x) == <<x>>

Val(v) == v[1]

\* Truthy taking the empty string for true.
Truthy_not_none(v) == v # None

\* Python truth value of None or a string.
Truthy(v) == v # None /\ v # Some("")

\* The ids uuid4() hands out, in the order it hands them out.
IdPool == <<"id1", "id2", "id3", "id4">>

\* A tuple, a list or a set holding the same elements.
PyObj(type) == Some([type |-> type, elems |-> <<"a", "b">>])

Keys == {"name", "price", "category", "id", "stock", "tags"}

NameVals == {None, Some(""), Some("Laptop")}

PriceVals == {Some(10), Some(20)}

CategoryVals == {Some("Tools")}

IdVals == {Some(IdPool[1])}

StockVals == {Some(50)}

TagsVals == {PyObj("tuple"), PyObj("set")}

\* Every dict whose keys are K, each key with a value of its domain.
DictsOver(K) ==
    { [k \in K |-> r[k]] :
        r \in [name : NameVals, price : PriceVals, category : CategoryVals,
               id : IdVals, stock : StockVals, tags : TagsVals] }

\* The dicts the actions hand to create_item and update_item.
Dicts == UNION { DictsOver(K) : K \in { S \in SUBSET Keys : Cardinality(S) <= MaxKeys } }

\* The dicts of any number of keys.
AllDicts == UNION { DictsOver(K) : K \in SUBSET Keys }

\* The item_data / update_data arguments: a dict, or None for a non-dict.
DictArgs == {None} \cup { Some(d) : d \in Dicts }

\* The item_id arguments: None for a non-string, the empty string, or an id.
ItemIdArgs == {None, Some("")} \cup { Some(IdPool[n]) : n \in 1..MaxCreates }

\* Outcome of the backing store for one connection: it answers, or its
\* first use raises sqlite3.Error.
DbOutcomes == {"ok", "error"}

CategoryArgs == {None, Some(""), Some("tools"), Some("TOYS")}

MinPriceArgs == {None, Some(10), Some(20)}

MaxPriceArgs == {None, Some(10), Some(20)}

----------------------------------------------------------------------------
(* Helpers *)

EmptyDict == <<>>

\* dict.update: the keys of e are added to d or overwrite d's.
DictUpdate(d, e) ==
    [k \in DOMAIN d \cup DOMAIN e |-> IF k \in DOMAIN e THEN e[k] ELSE d[k]]

\* The dict left after popping the keys ks.
DictPop(d, ks) == [k \in DOMAIN d \ ks |-> d[k]]

\* dict.pop(k, None) / dict.get(k)
DictGet(d, k) == IF k \in DOMAIN d THEN d[k] ELSE None

\* The keys whose values are containers (tuple, list, set) in this model.
ContainerKeys == {"tags"}

\* json.dumps raises TypeError on a set.
JsonSerializable(d) == \A k \in DOMAIN d \cap ContainerKeys : d[k] # PyObj("set")

\* json.dumps writes a tuple as a JSON array, which json.loads reads as a list.
JsonValue(k, v) == IF k \in ContainerKeys /\ v = PyObj("tuple") THEN PyObj("list") ELSE v

\* The JSON text of a dict, as the mapping json.loads makes of it.
_serialize_additional_data(data) == Some([k \in DOMAIN data |-> JsonValue(k, data[k])])

_deserialize_additional_data(json_str) ==
    IF json_str # None THEN Val(json_str) ELSE EmptyDict

\* SQL LOWER() on the category strings of the model.
Lower(s) ==
    CASE s = "Tools" -> "tools"
      [] s = "TOYS"  -> "toys"
      [] OTHER       -> s

Result(tbl, r) == [tbl |-> tbl, ret |-> r]

Error(msg) == [status |-> "error", message |-> msg]

SqliteError == Error("SQLite error: {e}")

Statuses == {"success", "error", "info", "warning"}

\* PRIMARY KEY and NOT NULL constraints of the items table.
InsertAllowed(tbl, item_id, name) == item_id \notin DOMAIN tbl /\ name # None

\* _dict_factory without its last assignment: an id key of additional_data wins.
_dict_factory_no_restore(row_id, row) ==
    DictUpdate([id |-> Some(row_id), name |-> row.name, price |-> row.price,
                category |-> row.category],
               _deserialize_additional_data(row.additional_data))

_dict_factory(row_id, row) ==
    LET d  == [id |-> Some(row_id), name |-> row.name, price |-> row.price,
               category |-> row.category]
        d2 == DictUpdate(d, _deserialize_additional_data(row.additional_data))
    IN  [d2 EXCEPT !["id"] = Some(row_id)]

----------------------------------------------------------------------------
(* The five tools *)

\* uuid4 handing out the first id of the pool that no row has.
uuid4_reuse(tbl, n) ==
    IdPool[CHOOSE k \in 1..Len(IdPool) :
             /\ IdPool[k] \notin DOMAIN tbl
             /\ \A j \in 1..(k - 1) : IdPool[j] \in DOMAIN tbl]

\* The id the next uuid4() call returns when n ids were handed out before.
uuid4(tbl, n) == IdPool[n + 1]

\* The validation of create_item before it generates an id.
CreateValid(item_data) ==
    /\ item_data # None
    /\ "name" \in DOMAIN Val(item_data)
    /\ Truthy(Val(item_data)["name"])

\* tbl: the table, n: the ids handed out so far.  The result holds the table
\* and the count of ids afterwards and the value returned (or the exception).
create_item(tbl, n, item_data, db) ==
    IF item_data = None \/ DOMAIN Val(item_data) = {}
    THEN [tbl |-> tbl, issued |-> n,
          ret |-> Error("Item data must be a non-empty dictionary.")]
    ELSE IF ~CreateValid(item_data)
    THEN [tbl |-> tbl, issued |-> n,
          ret |-> Error("Item 'name' is required and cannot be empty.")]
    ELSE
      LET d        == Val(item_data)
          item_id  == uuid4(tbl, n)
          name     == d["name"]
          price    == DictGet(d, "price")
          category == DictGet(d, "category")
          rest     == DictPop(d, {"name", "price", "category"})
      IN  IF ~JsonSerializable(rest)
          THEN [tbl |-> tbl, issued |-> n + 1, ret |-> [raises |-> "TypeError"]]
          ELSE IF db = "error" \/ ~InsertAllowed(tbl, item_id, name)
          THEN [tbl |-> tbl, issued |-> n + 1, ret |-> SqliteError]
          ELSE [tbl |-> [i \in DOMAIN tbl \cup {item_id} |->
                          IF i = item_id
                          THEN [name |-> name, price |-> price, category |-> category,
                                additional_data |-> _serialize_additional_data(rest)]
                          ELSE tbl[i]],
                issued |-> n + 1,
                ret |-> [status |-> "success", item_id |-> item_id,
                         message |-> "Item '{name}' created with ID: {item_id}."]]

read_item(tbl, item_id, db) ==
    IF ~Truthy(item_id)
    THEN Error("Invalid item ID provided. It must be a string.")
    ELSE IF db = "error"
    THEN SqliteError
    ELSE IF Val(item_id) \in DOMAIN tbl
    THEN [status |-> "success", item |-> _dict_factory(Val(item_id), tbl[Val(item_id)])]
    ELSE Error("Item with ID '{item_id}' not found.")

\* RowMatches with strict price comparisons.
RowMatches_exclusive(row, category, min_price, max_price) ==
    /\ Truthy(category) =>
          row.category # None /\ Lower(Val(row.category)) = Lower(Val(category))
    /\ min_price # None => row.price # None /\ Val(row.price) > Val(min_price)
    /\ max_price # None => row.price # None /\ Val(row.price) < Val(max_price)

\* The rows the WHERE clause of read_all_items selects.
RowMatches(row, category, min_price, max_price) ==
    /\ Truthy(category) =>
          row.category # None /\ Lower(Val(row.category)) = Lower(Val(category))
    /\ min_price # None => row.price # None /\ Val(row.price) >= Val(min_price)
    /\ max_price # None => row.price # None /\ Val(row.price) <= Val(max_price)

\* fetchall() under the _dict_factory row factory: the rows of the ids, in order.
RECURSIVE FetchAll(_, _)
FetchAll(tbl, ids) ==
    IF ids = <<>>
    THEN <<>>
    ELSE <<_dict_factory(Head(ids), tbl[Head(ids)])>> \o FetchAll(tbl, Tail(ids))

read_all_items(tbl, category, min_price, max_price, db) ==
    LET params  == Truthy(category) \/ min_price # None \/ max_price # None
        Sel(i)  == i \in DOMAIN tbl /\ RowMatches(tbl[i], category, min_price, max_price)
        fetched == FetchAll(tbl, SelectSeq(IdPool, Sel))
    IN  IF db = "error"
        THEN SqliteError
        ELSE IF fetched = <<>>
        THEN [status |-> "success", items |-> <<>>,
              message |-> IF params THEN "No items found matching your criteria."
                                    ELSE "There are no items in the store yet."]
        ELSE [status |-> "success", items |-> fetched]

\* UpdatedRow writing the new keys alone into additional_data, not the merge.
UpdatedRow_overwrite(row, d) ==
    LET rest == DictPop(d, {"name", "price", "category"})
    IN  [name            |-> IF "name" \in DOMAIN d THEN d["name"] ELSE row.name,
         price           |-> IF "price" \in DOMAIN d THEN d["price"] ELSE row.price,
         category        |-> IF "category" \in DOMAIN d THEN d["category"] ELSE row.category,
         additional_data |-> IF DOMAIN rest # {}
                             THEN _serialize_additional_data(rest)
                             ELSE row.additional_data]

\* The row after the UPDATE statement update_item builds from the change set d
\* (its id key already popped).
UpdatedRow(row, d) ==
    LET rest == DictPop(d, {"name", "price", "category"})
        cur  == _deserialize_additional_data(row.additional_data)
    IN  [name            |-> IF "name" \in DOMAIN d THEN d["name"] ELSE row.name,
         price           |-> IF "price" \in DOMAIN d THEN d["price"] ELSE row.price,
         category        |-> IF "category" \in DOMAIN d THEN d["category"] ELSE row.category,
         additional_data |-> IF DOMAIN rest # {}
                             THEN _serialize_additional_data(DictUpdate(cur, rest))
                             ELSE row.additional_data]

\* ChangesId without the check.
ChangesId_never(item_id, d) == FALSE

\* The change set names an id other than the target's.
ChangesId(item_id, d) == "id" \in DOMAIN d /\ d["id"] # item_id

\* ChangeSet without the pop: the id key stays in the change set.
ChangeSet_keep_id(d) == d

\* The change set once its id key is popped.
ChangeSet(d) == DictPop(d, {"id"})

update_item(tbl, item_id, update_data, db, db_read) ==
    IF ~Truthy(item_id)
    THEN Result(tbl, Error("Invalid item ID provided."))
    ELSE IF update_data = None \/ DOMAIN Val(update_data) = {}
    THEN Result(tbl, Error("Update data must be a non-empty dictionary."))
    ELSE IF ChangesId(item_id, Val(update_data))
    THEN Result(tbl, Error("Cannot change item ID during update."))
    ELSE
      LET d    == ChangeSet(Val(update_data))
          id   == Val(item_id)
          rest == DictPop(d, {"name", "price", "category"})
      IN  IF db = "error"
          THEN Result(tbl, SqliteError)
          ELSE IF id \notin DOMAIN tbl
          THEN Result(tbl, Error("Item with ID '{item_id}' not found for update."))
          ELSE IF /\ DOMAIN rest # {}
                  /\ ~JsonSerializable(
                       DictUpdate(_deserialize_additional_data(tbl[id].additional_data), rest))
          THEN Result(tbl, Error("Failed to update item: {e}"))
          ELSE IF DOMAIN d = {}
          THEN Result(tbl, [status |-> "info",
                            message |-> "No valid fields provided for update."])
          ELSE IF UpdatedRow(tbl[id], d).name = None
          THEN Result(tbl, SqliteError)
          ELSE
            LET tbl2 == [tbl EXCEPT ![id] = UpdatedRow(tbl[id], d)]
                resp == read_item(tbl2, item_id, db_read)
            IN  IF resp.status = "success"
                THEN Result(tbl2, [status |-> "success", item_id |-> id,
                                   message |-> "Item '{item_id}' updated successfully.",
                                   updated_item |-> resp.item])
                ELSE Result(tbl2, [status |-> "warning", item_id |-> id,
                                   message |-> "Item '{item_id}' updated, but failed to retrieve afterwards."])

delete_item(tbl, item_id, db) ==
    IF ~Truthy(item_id)
    THEN Result(tbl, Error("Invalid item ID provided."))
    ELSE IF db = "error"
    THEN Result(tbl, SqliteError)
    ELSE IF Val(item_id) \in DOMAIN tbl
    THEN Result([i \in DOMAIN tbl \ {Val(item_id)} |-> tbl[i]],
                [status |-> "success", item_id |-> Val(item_id),
                 message |-> "Item '{item_name}' (ID: {item_id}) deleted successfully."])
    ELSE Result(tbl, Error("Item with ID '{item_id}' not found for deletion."))

----------------------------------------------------------------------------
(* The store as a state machine: one action per tool.  The state is the    *)
(* items table, the number of ids uuid4() has handed out, and the ids      *)
(* whose DELETE removed a row.  What a tool hands back to its caller is    *)
(* the ret field of its operator above.  Here every call runs from its     *)
(* first line to its return with no other call in between, so upd, the     *)
(* position of each update_item call that is under way, stays idle.        *)

\* The update_item calls that may be under way at the same time, each on a
\* connection of its own.
Procs == {"u1", "u2"}

\* An update_item call that has not started.
Idle == [pc |-> "idle", item_id |-> None, d |-> EmptyDict,
         current_additional_dict |-> EmptyDict, overlap |-> FALSE, ret |-> None]

Init ==
    /\ items = <<>>
    /\ issued = 0
    /\ deleted = {}
    /\ upd = [p \in Procs |-> Idle]

CreateItem ==
    \E item_data \in DictArgs, db \in DbOutcomes :
      LET r == create_item(items, issued, item_data, db)
      IN  /\ r.issued <= MaxCreates
          /\ items' = r.tbl
          /\ issued' = r.issued
          /\ UNCHANGED <<deleted, upd>>

\* read_item writes nothing.
ReadItem ==
    \E item_id \in ItemIdArgs, db \in DbOutcomes :
      /\ "status" \in DOMAIN read_item(items, item_id, db)
      /\ UNCHANGED vars

\* read_all_items writes nothing.
ReadAllItems ==
    \E category \in CategoryArgs, min_price \in MinPriceArgs, max_price \in MaxPriceArgs,
       db \in DbOutcomes :
      /\ "status" \in DOMAIN read_all_items(items, category, min_price, max_price, db)
      /\ UNCHANGED vars

UpdateItem ==
    \E item_id \in ItemIdArgs, update_data \in DictArgs, db \in DbOutcomes,
       db_read \in DbOutcomes :
      /\ db = "error" => db_read = "ok"
      /\ items' = update_item(items, item_id, update_data, db, db_read).tbl
      /\ UNCHANGED <<issued, deleted, upd>>

DeleteItem ==
    \E item_id \in ItemIdArgs, db \in DbOutcomes :
      LET r == delete_item(items, item_id, db)
      IN  /\ items' = r.tbl
          /\ deleted' = IF r.ret.status = "success"
                         THEN deleted \cup {r.ret.item_id} ELSE deleted
          /\ UNCHANGED <<issued, upd>>

Next == CreateItem \/ ReadItem \/ ReadAllItems \/ UpdateItem \/ DeleteItem

Spec == Init /\ [][Next]_vars

----------------------------------------------------------------------------
(* Overlapping updates.  update_item runs three statements against the     *)
(* store: the SELECT of additional_data, the UPDATE with its commit, and   *)
(* the SELECT of read_item.  sqlite3 opens the transaction in front of the *)
(* UPDATE, not in front of the SELECT, and the code takes no lock of its   *)
(* own, so the store makes each statement atomic and nothing more: the     *)
(* statements of another call on another connection may run between them.  *)
(* upd[p] is the call of p: where it stands, its locals, and what it       *)
(* returned; overlap records that the other call was under way when this   *)
(* one started.                                                            *)

\* The change sets of the overlapping calls.
OverlapKeys == {"name", "stock", "tags"}

OverlapDicts == {d \in Dicts : DOMAIN d \subseteq OverlapKeys}

OverlapArgs == {None} \cup {Some(d) : d \in OverlapDicts}

\* The tables a create_item leaves behind in an empty store.
OverlapStores ==
    {create_item(<<>>, 0, Some(d), "ok").tbl : d \in Dicts} \ {<<>>}

\* The row the UPDATE statement writes: the columns named in the change set
\* d, and, when keys remain, the document merged into the
\* current_additional_dict that this call read with its SELECT.
WrittenRow(row, d, current_additional_dict) ==
    LET rest == DictPop(d, {"name", "price", "category"})
    IN  [name            |-> IF "name" \in DOMAIN d THEN d["name"] ELSE row.name,
         price           |-> IF "price" \in DOMAIN d THEN d["price"] ELSE row.price,
         category        |-> IF "category" \in DOMAIN d THEN d["category"] ELSE row.category,
         additional_data |-> IF DOMAIN rest # {}
                             THEN _serialize_additional_data(
                                      DictUpdate(current_additional_dict, rest))
                             ELSE row.additional_data]

\* The call of p returns r.
Returned(p, r) == [upd EXCEPT ![p].pc = "done", ![p].ret = r,
                              ![p].current_additional_dict = EmptyDict]

\* Some other call stands between its SELECT and its return.
OtherUnderWay(p) == \E q \in Procs \ {p} : upd[q].pc \in {"selected", "committed"}

\* The call starts: argument checks, then the SELECT of additional_data.
UpdateSelect(p) ==
    \E item_id \in ItemIdArgs, update_data \in OverlapArgs, db \in DbOutcomes :
      /\ upd[p].pc = "idle"
      /\ UNCHANGED <<items, issued, deleted>>
      /\ upd' =
           IF ~Truthy(item_id)
           THEN Returned(p, Error("Invalid item ID provided."))
           ELSE IF update_data = None \/ DOMAIN Val(update_data) = {}
           THEN Returned(p, Error("Update data must be a non-empty dictionary."))
           ELSE IF ChangesId(item_id, Val(update_data))
           THEN Returned(p, Error("Cannot change item ID during update."))
           ELSE IF db = "error"
           THEN Returned(p, SqliteError)
           ELSE IF Val(item_id) \notin DOMAIN items
           THEN Returned(p, Error("Item with ID '{item_id}' not found for update."))
           ELSE [upd EXCEPT ![p] =
                   [pc |-> "selected", item_id |-> item_id,
                    d |-> ChangeSet(Val(update_data)),
                    current_additional_dict |->
                        _deserialize_additional_data(items[Val(item_id)].additional_data),
                    overlap |-> OtherUnderWay(p), ret |-> None]]

\* The call builds its UPDATE from its locals, executes it and commits.
UpdateWrite(p) ==
    \E db \in DbOutcomes :
      LET u    == upd[p]
          id   == Val(u.item_id)
          rest == DictPop(u.d, {"name", "price", "category"})
      IN  /\ u.pc = "selected"
          /\ UNCHANGED <<issued, deleted>>
          /\ IF /\ DOMAIN rest # {}
                /\ ~JsonSerializable(DictUpdate(u.current_additional_dict, rest))
             THEN /\ upd' = Returned(p, Error("Failed to update item: {e}"))
                  /\ UNCHANGED items
             ELSE IF DOMAIN u.d = {}
             THEN /\ upd' = Returned(p, [status |-> "info",
                                         message |-> "No valid fields provided for update."])
                  /\ UNCHANGED items
             ELSE IF db = "error"
             THEN /\ upd' = Returned(p, SqliteError)
                  /\ UNCHANGED items
             ELSE IF id \notin DOMAIN items
             THEN /\ upd' = Returned(p, Error("Item with ID '{item_id}' not found for update (race condition?)."))
                  /\ UNCHANGED items
             ELSE IF WrittenRow(items[id], u.d, u.current_additional_dict).name = None
             THEN /\ upd' = Returned(p, SqliteError)
                  /\ UNCHANGED items
             ELSE /\ items' = [items EXCEPT ![id] =
                                 WrittenRow(items[id], u.d, u.current_additional_dict)]
                  /\ upd' = [upd EXCEPT ![p].pc = "committed",
                                        ![p].current_additional_dict = EmptyDict]

\* The call reads the item back and returns.
UpdateReadBack(p) ==
    \E db_read \in DbOutcomes :
      LET id   == Val(upd[p].item_id)
          resp == read_item(items, upd[p].item_id, db_read)
      IN  /\ upd[p].pc = "committed"
          /\ UNCHANGED <<items, issued, deleted>>
          /\ upd' = IF resp.status = "success"
                    THEN Returned(p, [status |-> "success", item_id |-> id,
                                      message |-> "Item '{item_id}' updated successfully.",
                                      updated_item |-> resp.item])
                    ELSE Returned(p, [status |-> "warning", item_id |-> id,
                                      message |-> "Item '{item_id}' updated, but failed to retrieve afterwards."])

\* One created item in the store, and no update under way.
InitOverlap ==
    /\ items \in OverlapStores
    /\ issued = 1
    /\ deleted = {}
    /\ upd = [p \in Procs |-> Idle]

NextOverlap == \E p \in Procs : UpdateSelect(p) \/ UpdateWrite(p) \/ UpdateReadBack(p)

SpecOverlap == InitOverlap /\ [][NextOverlap]_vars

----------------------------------------------------------------------------
(* Claims.  A claim about what a tool returns, or about what one call does  *)
(* to the table, is stated for every argument of the input domains at every *)
(* reachable state of the store; the claims about create_item take the      *)
(* dicts of any number of keys.                                             *)

ColumnKeys == {"name", "price", "category"}

\* What a create of the dict d does from the current state (store available).
Created(d) == create_item(items, issued, Some(d), "ok")

CreateSucceeds(d) ==
    /\ issued < MaxCreates
    /\ "status" \in DOMAIN Created(d).ret
    /\ Created(d).ret.status = "success"

\* The read of the id a successful create of d returned.
ReadBack(d) == read_item(Created(d).tbl, Some(Created(d).ret.item_id), "ok")

\* C1 as the spec states it: after a successful create, the read of the
\* returned id returns every submitted key with its submitted value and no key
\* but these and id.
C1_ReadReturnsExactlySubmitted ==
    \A d \in AllDicts :
      CreateSucceeds(d) =>
        /\ ReadBack(d).status = "success"
        /\ DOMAIN ReadBack(d).item = DOMAIN d \cup {"id"}
        /\ \A k \in DOMAIN d : ReadBack(d).item[k] = d[k]

\* C1 amended: after a successful create, the read of the returned id returns
\* the keys id, name, price, category and the submitted keys; id is the id the
\* create returned, name is the submitted name, price and category are the
\* submitted values or None when omitted, and every other submitted key but id
\* has its submitted value as JSON reads it back (a tuple comes back a list).
C1_ReadReturnsStoredItem ==
    \A d \in AllDicts :
      CreateSucceeds(d) =>
        LET item == ReadBack(d).item
        IN  /\ ReadBack(d).status = "success"
            /\ DOMAIN item = DOMAIN d \cup ColumnKeys \cup {"id"}
            /\ item["id"] = Some(Created(d).ret.item_id)
            /\ item["name"] = d["name"]
            /\ item["price"] = IF "price" \in DOMAIN d THEN d["price"] ELSE None
            /\ item["category"] = IF "category" \in DOMAIN d THEN d["category"] ELSE None
            /\ \A k \in DOMAIN d \ (ColumnKeys \cup {"id"}) :
                  IF k = "tags" /\ d[k] = PyObj("tuple")
                  THEN item[k] = PyObj("list")
                  ELSE item[k] = d[k]

\* A create of {"name": "Laptop", "tags": ("a", "b")} has stored a row, which
\* a read returns with price and category None and tags a list.
C1_Witness ==
    \E i \in DOMAIN items :
      read_item(items, Some(i), "ok").item =
        [id |-> Some(i), name |-> Some("Laptop"), price |-> None, category |-> None,
         tags |-> PyObj("list")]

\* What update_item does to the current state.
Updated(item_id, update_data, db, db_read) ==
    update_item(items, item_id, update_data, db, db_read)

\* C2: a successful update leaves every key of the item that the change set
\* does not name (name, price, category, additional attributes) with the value
\* a read returned before, and leaves every other row as it was.
C2_UpdateChangesOnlyNamedFields ==
    \A i \in DOMAIN items, d \in Dicts, db_read \in DbOutcomes :
      LET r      == Updated(Some(i), Some(d), "ok", db_read)
          before == read_item(items, Some(i), "ok").item
          after  == read_item(r.tbl, Some(i), "ok").item
      IN  r.ret.status = "success" =>
            /\ DOMAIN r.tbl = DOMAIN items
            /\ \A j \in DOMAIN items \ {i} : r.tbl[j] = items[j]
            /\ \A k \in DOMAIN before \ DOMAIN d :
                  k \in DOMAIN after /\ after[k] = before[k]

\* Two rows are stored; one holds both stock and tags, and an update of its
\* tags succeeds and returns it with its stock in place.
C2_Witness ==
    \E i \in DOMAIN items, j \in DOMAIN items :
      /\ i # j
      /\ {"stock", "tags"} \subseteq DOMAIN read_item(items, Some(i), "ok").item
      /\ Updated(Some(i), Some([tags |-> PyObj("tuple")]), "ok", "ok").ret.status = "success"
      /\ Updated(Some(i), Some([tags |-> PyObj("tuple")]), "ok", "ok").ret.updated_item["stock"]
           = Some(50)

\* C3 as the spec states it: on an existing id, an update with an empty change
\* set, or with one holding no field to change, reports status info and
\* leaves the table as it was.
C3_EmptyUpdateIsInfo ==
    \A i \in DOMAIN items :
      /\ Updated(Some(i), Some(EmptyDict), "ok", "ok").ret.status = "info"
      /\ Updated(Some(i), Some(EmptyDict), "ok", "ok").tbl = items
      /\ Updated(Some(i), Some([id |-> Some(i)]), "ok", "ok").ret.status = "info"
      /\ Updated(Some(i), Some([id |-> Some(i)]), "ok", "ok").tbl = items

\* C3 amended: on an existing id, an update with an empty change set reports
\* status error, and an update whose change set holds the target's own id and
\* nothing else reports status info when the store answers; both leave the
\* table as it was, so repeating them changes nothing.
C3_NoOpUpdate ==
    \A i \in DOMAIN items, db \in DbOutcomes :
      /\ Updated(Some(i), Some(EmptyDict), db, "ok").ret.status = "error"
      /\ Updated(Some(i), Some(EmptyDict), db, "ok").tbl = items
      /\ db = "ok" => Updated(Some(i), Some([id |-> Some(i)]), db, "ok").ret.status = "info"
      /\ Updated(Some(i), Some([id |-> Some(i)]), db, "ok").tbl = items

\* A row with additional attributes is stored and the update of it with its
\* own id alone returns status info.
C3_Witness ==
    \E i \in DOMAIN items :
      /\ "stock" \in DOMAIN read_item(items, Some(i), "ok").item
      /\ Updated(Some(i), Some([id |-> Some(i)]), "ok", "ok").ret.status = "info"

\* C4: an id whose delete succeeded is in no row afterwards, whatever creates,
\* updates and deletes follow: a read of it returns the not-found error.
C4_DeletedStaysGone ==
    \A i \in deleted :
      /\ i \notin DOMAIN items
      /\ read_item(items, Some(i), "ok") = Error("Item with ID '{item_id}' not found.")

\* An id was deleted and a row created after it is stored.
C4_Witness ==
    /\ IdPool[1] \in deleted
    /\ IdPool[2] \in DOMAIN items

----------------------------------------------------------------------------

\* Equality of two category strings ignoring case.
EqualIgnoringCase(a, b) ==
    \/ a = b
    \/ {a, b} \subseteq {"Tools", "tools", "TOOLS"}
    \/ {a, b} \subseteq {"Toys", "toys", "TOYS"}

\* The price of the row lies within the bounds that are supplied.
PriceWithin(row, min_price, max_price) ==
    /\ min_price # None => row.price # None /\ Val(row.price) >= Val(min_price)
    /\ max_price # None => row.price # None /\ Val(row.price) <= Val(max_price)

\* read_all_items returns success with exactly the rows of the set ids, each
\* once and as read_item returns it, and with a message when there is none.
ReturnsExactly(r, ids) ==
    /\ r.status = "success"
    /\ Len(r.items) = Cardinality(ids)
    /\ { r.items[n] : n \in 1..Len(r.items) } =
         { read_item(items, Some(i), "ok").item : i \in ids }
    /\ ids = {} => r.items = <<>> /\ "message" \in DOMAIN r

\* C5 as the spec states it: read_all returns success with exactly the rows
\* whose category equals the category filter ignoring case and whose price is
\* within the bounds, for every filter that is supplied (not None).
C5_ReadAllReturnsMatches ==
    \A category \in CategoryArgs, min_price \in MinPriceArgs, max_price \in MaxPriceArgs :
      ReturnsExactly(
        read_all_items(items, category, min_price, max_price, "ok"),
        { i \in DOMAIN items :
            /\ category # None =>
                  /\ items[i].category # None
                  /\ EqualIgnoringCase(Val(items[i].category), Val(category))
            /\ PriceWithin(items[i], min_price, max_price) })

\* C5 amended: the same when the store answers, a category filter that is the
\* empty string counting as not supplied.
C5_ReadAllReturnsMatchesNonEmptyCategory ==
    \A category \in CategoryArgs, min_price \in MinPriceArgs, max_price \in MaxPriceArgs :
      ReturnsExactly(
        read_all_items(items, category, min_price, max_price, "ok"),
        { i \in DOMAIN items :
            /\ (category # None /\ category # Some("")) =>
                  /\ items[i].category # None
                  /\ EqualIgnoringCase(Val(items[i].category), Val(category))
            /\ PriceWithin(items[i], min_price, max_price) })

\* Two rows are stored, of prices 10 and 20: the bounds [10, 20] select both,
\* the bounds [20, 20] and the category "tools" one each, the bounds [20, 10]
\* none.
C5_Witness ==
    /\ Cardinality(DOMAIN items) = 2
    /\ Len(read_all_items(items, None, Some(10), Some(20), "ok").items) = 2
    /\ Len(read_all_items(items, None, Some(20), Some(20), "ok").items) = 1
    /\ Len(read_all_items(items, Some("tools"), None, None, "ok").items) = 1
    /\ read_all_items(items, None, Some(20), Some(10), "ok").items = <<>>

----------------------------------------------------------------------------

\* The value is a result mapping with one of the four statuses.
IsResult(r) == "status" \in DOMAIN r /\ r.status \in Statuses

\* C6: each of the five tools returns, for every argument and every outcome
\* of the store, a mapping whose status is success, error, info or warning,
\* and raises nothing.
C6_ToolsAlwaysReturnStatus ==
    /\ \A item_data \in {None} \cup { Some(d) : d \in AllDicts }, db \in DbOutcomes :
         IsResult(create_item(items, issued, item_data, db).ret)
    /\ \A item_id \in ItemIdArgs, db \in DbOutcomes :
         /\ IsResult(read_item(items, item_id, db))
         /\ IsResult(delete_item(items, item_id, db).ret)
    /\ \A category \in CategoryArgs, min_price \in MinPriceArgs,
          max_price \in MaxPriceArgs, db \in DbOutcomes :
         IsResult(read_all_items(items, category, min_price, max_price, db))
    /\ \A item_id \in ItemIdArgs, update_data \in DictArgs, db \in DbOutcomes,
          db_read \in DbOutcomes :
         IsResult(Updated(item_id, update_data, db, db_read).ret)

\* C7: no row's additional_data holds the key id, and the id a read returns is
\* the primary key of the row.
C7_NoIdInAdditionalData ==
    \A i \in DOMAIN items :
      /\ "id" \notin DOMAIN _deserialize_additional_data(items[i].additional_data)
      /\ read_item(items, Some(i), "ok").item["id"] = Some(i)

\* The item_data is no mapping, is empty, or has no name or an empty one.
InvalidItemData(item_data) ==
    \/ item_data = None
    \/ DOMAIN Val(item_data) = {}
    \/ "name" \notin DOMAIN Val(item_data)
    \/ Val(item_data)["name"] \in {None, Some("")}

\* C8: a create whose input is no mapping, is empty, or has no name or an
\* empty one returns status error, generates no id and leaves the table as it
\* was.
C8_InvalidCreateChangesNothing ==
    \A item_data \in {None} \cup { Some(d) : d \in AllDicts }, db \in DbOutcomes :
      InvalidItemData(item_data) =>
        LET r == create_item(items, issued, item_data, db)
        IN  /\ IsResult(r.ret)
            /\ r.ret.status = "error"
            /\ r.issued = issued
            /\ r.tbl = items

\* A row is stored and a create with an empty name is refused.
C8_Witness ==
    /\ items # <<>>
    /\ create_item(items, issued, Some([name |-> Some("")]), "ok").ret
         = Error("Item 'name' is required and cannot be empty.")

\* C9: an update or a delete of an id no row has, and an update whose change
\* set names an id other than the target's, return status error and leave the
\* table as it was; and no tool moves a row to another id: an update keeps the
\* primary keys, a create keeps the rows there are under their ids, a delete
\* leaves the rows it keeps under their ids.
C9_MissingIdAndIdChangeAreErrors ==
    /\ \A item_id \in ItemIdArgs, update_data \in DictArgs, db \in DbOutcomes,
          db_read \in DbOutcomes :
         LET r == Updated(item_id, update_data, db, db_read)
         IN  /\ DOMAIN r.tbl = DOMAIN items
             /\ (item_id = None \/ Val(item_id) \notin DOMAIN items) =>
                   r.ret.status = "error" /\ r.tbl = items
             /\ ( /\ update_data # None
                  /\ "id" \in DOMAIN Val(update_data)
                  /\ Val(update_data)["id"] # item_id ) =>
                   r.ret.status = "error" /\ r.tbl = items
    /\ \A item_id \in ItemIdArgs, db \in DbOutcomes :
         LET r == delete_item(items, item_id, db)
         IN  /\ DOMAIN r.tbl \subseteq DOMAIN items
             /\ \A j \in DOMAIN r.tbl : r.tbl[j] = items[j]
             /\ (item_id = None \/ Val(item_id) \notin DOMAIN items) =>
                   r.ret.status = "error" /\ r.tbl = items
    /\ \A item_data \in DictArgs, db \in DbOutcomes :
         LET r == create_item(items, issued, item_data, db)
         IN  \A j \in DOMAIN items : j \in DOMAIN r.tbl /\ r.tbl[j] = items[j]

\* The first id was deleted and the second is stored: an update and a delete
\* of the first return not-found errors, and an update of the second whose
\* change set names the first id is refused.
C9_Witness ==
    /\ IdPool[1] \in deleted
    /\ IdPool[2] \in DOMAIN items
    /\ Updated(Some(IdPool[1]), Some([name |-> Some("Laptop")]), "ok", "ok").ret
         = Error("Item with ID '{item_id}' not found for update.")
    /\ delete_item(items, Some(IdPool[1]), "ok").ret
         = Error("Item with ID '{item_id}' not found for deletion.")
    /\ Updated(Some(IdPool[2]), Some([id |-> Some(IdPool[1]), stock |-> Some(50)]),
               "ok", "ok").ret
         = Error("Cannot change item ID during update.")

\* C10: every stored row has a non-empty name.
C10_StoredNameNonEmpty ==
    \A i \in DOMAIN items : items[i].name # None /\ items[i].name # Some("")

\* The additional-attribute keys of a change set.
ExtraKeys(d) == DOMAIN d \ ColumnKeys

\* Both calls have returned success for the same item, at least one of them
\* started while the other was under way, and their change sets name
\* different additional-attribute keys.
BothSucceeded(p, q) ==
    /\ p # q
    /\ upd[p].pc = "done" /\ upd[q].pc = "done"
    /\ upd[p].ret.status = "success" /\ upd[q].ret.status = "success"
    /\ upd[p].item_id = upd[q].item_id
    /\ upd[p].overlap \/ upd[q].overlap
    /\ ExtraKeys(upd[p].d) # {} /\ ExtraKeys(upd[q].d) # {}
    /\ ExtraKeys(upd[p].d) \cap ExtraKeys(upd[q].d) = {}

\* C11: when two overlapping update_item calls on the same item, which set
\* different additional-attribute keys, have both returned success, the
\* stored item holds the keys of both with the values they set: no update
\* is lost.
C11_NoLostUpdate ==
    \A p, q \in Procs :
      BothSucceeded(p, q) =>
        /\ Val(upd[p].item_id) \in DOMAIN items
        /\ LET doc == _deserialize_additional_data(
                          items[Val(upd[p].item_id)].additional_data)
           IN  \A k \in ExtraKeys(upd[p].d) :
                 /\ k \in DOMAIN doc
                 /\ IF k = "tags" /\ upd[p].d[k] = PyObj("tuple")
                    THEN doc[k] = PyObj("list")
                    ELSE doc[k] = upd[p].d[k]

====
